---- MODULE Spec2Model ----
(***************************************************************************)
(* Maldives tuna dashboard: the derived-metrics pipeline (buildRows, yoy,  *)
(* useRowsWithYoY) and the dashboard component that renders it.            *)
(*                                                                         *)
(* A JavaScript value is a record [k, s, n, d, e, drift]:                  *)
(*   k = "null"  the value null                                            *)
(*   k = "nan"   NaN                                                       *)
(*   k = "inf"   Infinity (s = 1) or -Infinity (s = -1)                    *)
(*   k = "num"   the finite number  s * (n / d) * 10^e  in canonical form  *)
(*               (sign and magnitude, so that -0 is s = -1, n = 0).        *)
(* The record holds the exact value q that the binary64 number stands for. *)
(* The binary64 error is far below the distance of any value of the model  *)
(* to a rounding boundary of toFixed, except where q is itself a decimal   *)
(* tie (64350 / 1000 = 64.35): there the side of the tie on which the      *)
(* binary64 number lies decides, and RNDir computes it for a number that   *)
(* is the nearest binary64 of q (a literal, a parsed string, one operation *)
(* on exact operands).  drift marks the result of several rounded          *)
(* operations, whose side is not tracked; toFixed rounds such a tie        *)
(* upwards.                                                                *)
(***************************************************************************)
EXTENDS Integers, Sequences, FiniteSets, TLC

\* ---------------------------------------------------------------- numbers

Null == [k |-> "null", s |-> 1, n |-> 0, d |-> 1, e |-> 0, drift |-> FALSE]

NaN == [k |-> "nan", s |-> 1, n |-> 0, d |-> 1, e |-> 0, drift |-> FALSE]

Inf(sg) == [k |-> "inf", s |-> sg, n |-> 0, d |-> 1, e |-> 0, drift |-> FALSE]

RECURSIVE Gcd(_, _)
Gcd(a, b) == IF b = 0 THEN a ELSE Gcd(b, a % b)

RECURSIVE Pow(_, _)
Pow(b, i) == IF i <= 0 THEN 1 ELSE b * Pow(b, i - 1)

Pow10(i) == Pow(10, i)

Min(a, b) == IF a <= b THEN a ELSE b

\* Canonical form of sg * (n / d) * 10^e for n > 0 and n, d coprime: the
\* factors 2 and 5 of d and the factors 10 of n move to the exponent.
RECURSIVE Canon(_, _, _, _, _)
Canon(sg, n, d, e, dr) ==
  IF d % 2 = 0 THEN Canon(sg, n * 5, d \div 2, e - 1, dr)
  ELSE IF d % 5 = 0 THEN Canon(sg, n * 2, d \div 5, e - 1, dr)
  ELSE IF n % 10 = 0 THEN Canon(sg, n \div 10, d, e + 1, dr)
  ELSE [k |-> "num", s |-> sg, n |-> n, d |-> d, e |-> e, drift |-> dr]

\* The finite number sg * (n / d) * 10^e, n >= 0, d > 0.
Num(sg, n, d, e, dr) ==
  IF n = 0 THEN [k |-> "num", s |-> sg, n |-> 0, d |-> 1, e |-> 0, drift |-> FALSE]
  ELSE LET g == Gcd(n, d) IN Canon(sg, n \div g, d \div g, e, dr)

\* A numeric literal of the source: the integer i scaled by 10^e.
Lit(i, e) == IF i < 0 THEN Num(-1, -i, 1, e, FALSE) ELSE Num(1, i, 1, e, FALSE)

\* ToNumber: null coerces to +0 in arithmetic.
ToNumber(x) == IF x.k = "null" THEN Lit(0, 0) ELSE x

IsFinite(x) == x.k = "num"

\* x != null
NotNull(x) == x.k # "null"

\* x === 0 (true of +0 and of -0)
IsZero(x) == x.k = "num" /\ x.n = 0

\* x < 0 and x > 0
IsNegative(x) == (x.k = "num" /\ x.s = -1 /\ x.n > 0) \/ (x.k = "inf" /\ x.s = -1)

IsPositive(x) == (x.k = "num" /\ x.s = 1 /\ x.n > 0) \/ (x.k = "inf" /\ x.s = 1)

\* The binary64 number is the exact value: an integer or a dyadic fraction
\* (every magnitude of the model is below 2^53).
Exact(x) ==
  /\ x.k = "num"
  /\ ~x.drift
  /\ (x.n = 0 \/ (x.d = 1 /\ (x.e >= 0 \/ x.n % Pow(5, -x.e) = 0)))

RECURSIVE BitLen(_)
BitLen(i) == IF i = 0 THEN 0 ELSE 1 + BitLen(i \div 2)

\* Round-to-nearest-even of a binary expansion: R / Q < 1 is what is left
\* after the bits produced so far, left bits of the 53-bit significand are
\* still to come, last is the last bit produced.  -1: the nearest binary64
\* is below the exact value, 1: above, 0: equal.
RECURSIVE RNBits(_, _, _, _)
RNBits(R, Q, left, last) ==
  IF R = 0 THEN 0
  ELSE IF left = 0
       THEN (IF 2 * R < Q THEN -1 ELSE IF 2 * R > Q THEN 1
             ELSE IF last = 0 THEN -1 ELSE 1)
  ELSE IF 2 * R >= Q THEN RNBits(2 * R - Q, Q, left - 1, 1)
  ELSE RNBits(2 * R, Q, left - 1, 0)

\* The leading zero bits of a fraction below 1 are not part of the
\* significand.
RECURSIVE RNSkip(_, _)
RNSkip(R, Q) ==
  IF 2 * R >= Q THEN RNBits(2 * R - Q, Q, 52, 1) ELSE RNSkip(2 * R, Q)

\* The side of P / Q (P >= 0, Q > 0) on which its nearest binary64 lies.
RNDir(P, Q) ==
  LET I == P \div Q
      R == P % Q
  IN IF I > 0 THEN RNBits(R, Q, 53 - BitLen(I), I % 2)
     ELSE IF R = 0 THEN 0 ELSE RNSkip(R, Q)

Neg(x) == IF x.k = "nan" THEN x ELSE [x EXCEPT !.s = -x.s]

\* a + b
Add(a0, b0) ==
  LET a == ToNumber(a0)
      b == ToNumber(b0)
  IN IF a.k = "nan" \/ b.k = "nan" THEN NaN
     ELSE IF a.k = "inf" /\ b.k = "inf" THEN (IF a.s = b.s THEN a ELSE NaN)
     ELSE IF a.k = "inf" THEN a
     ELSE IF b.k = "inf" THEN b
     ELSE LET e0 == Min(a.e, b.e)
              A == a.s * a.n * Pow10(a.e - e0) * b.d
              B == b.s * b.n * Pow10(b.e - e0) * a.d
              N == A + B
              dr == ~(Exact(a) /\ Exact(b))
          IN IF N = 0
             THEN Num(IF a.n = 0 /\ b.n = 0 /\ a.s = -1 /\ b.s = -1 THEN -1 ELSE 1,
                      0, 1, 0, FALSE)
             ELSE IF N < 0 THEN Num(-1, -N, a.d * b.d, e0, dr)
             ELSE Num(1, N, a.d * b.d, e0, dr)

\* a - b
Sub(a, b) == Add(a, Neg(ToNumber(b)))

\* a * b
Mul(a0, b0) ==
  LET a == ToNumber(a0)
      b == ToNumber(b0)
  IN IF a.k = "nan" \/ b.k = "nan" THEN NaN
     ELSE IF a.k = "inf" \/ b.k = "inf"
          THEN (IF IsZero(a) \/ IsZero(b) THEN NaN ELSE Inf(a.s * b.s))
     ELSE IF a.n = 0 \/ b.n = 0 THEN Num(a.s * b.s, 0, 1, 0, FALSE)
     ELSE LET g1 == Gcd(a.n, b.d)
              g2 == Gcd(b.n, a.d)
          IN Num(a.s * b.s, (a.n \div g1) * (b.n \div g2),
                 (a.d \div g2) * (b.d \div g1), a.e + b.e,
                 ~(Exact(a) /\ Exact(b)))

\* a / b
Div(a0, b0) ==
  LET a == ToNumber(a0)
      b == ToNumber(b0)
  IN IF a.k = "nan" \/ b.k = "nan" THEN NaN
     ELSE IF a.k = "inf" THEN (IF b.k = "inf" THEN NaN ELSE Inf(a.s * b.s))
     ELSE IF b.k = "inf" THEN Num(a.s * b.s, 0, 1, 0, FALSE)
     ELSE IF b.n = 0 THEN (IF a.n = 0 THEN NaN ELSE Inf(a.s * b.s))
     ELSE IF a.n = 0 THEN Num(a.s * b.s, 0, 1, 0, FALSE)
     ELSE LET g1 == Gcd(a.n, b.n)
              g2 == Gcd(a.d, b.d)
          IN Num(a.s * b.s, (a.n \div g1) * (b.d \div g2),
                 (a.d \div g2) * (b.n \div g1), a.e - b.e,
                 ~(Exact(a) /\ Exact(b)))

\* Number.prototype.toFixed(f): the decimal string of x with f fraction
\* digits, as [t, neg, m, f]: t = "digits" is the string of m / 10^f with
\* a leading "-" when neg; otherwise t is the string itself.  The integer m
\* is the one nearest to |x| * 10^f, the larger one when both are as near,
\* and the sign is written when x < 0 (so -0.04 gives "-0.0" and -0 gives
\* "0.0").  |x| is the binary64 number: where the exact value is a tie,
\* the side on which the binary64 number lies decides.
toFixed(x0, f) ==
  LET x == ToNumber(x0)
  IN IF x.k = "nan" THEN [t |-> "NaN", neg |-> FALSE, m |-> 0, f |-> 0]
     ELSE IF x.k = "inf"
          THEN [t |-> IF x.s = 1 THEN "Infinity" ELSE "-Infinity",
                neg |-> x.s = -1, m |-> 0, f |-> 0]
     ELSE LET N == IF x.e + f >= 0 THEN x.n * Pow10(x.e + f) ELSE x.n
              D == IF x.e + f >= 0 THEN x.d ELSE x.d * Pow10(-(x.e + f))
              q == N \div D
              r == N % D
              below == ~x.drift
                       /\ RNDir(x.n * Pow10(x.e), x.d * Pow10(-x.e)) = -1
              up == IF 2 * r = D THEN ~below ELSE 2 * r > D
          IN [t |-> "digits", neg |-> IsNegative(x),
              m |-> IF up THEN q + 1 ELSE q, f |-> f]

\* Number(str) of a string toFixed returns.
Number(str) ==
  IF str.t = "NaN" THEN NaN
  ELSE IF str.t = "Infinity" THEN Inf(1)
  ELSE IF str.t = "-Infinity" THEN Inf(-1)
  ELSE Num(IF str.neg THEN -1 ELSE 1, str.m, 1, -str.f, FALSE)

\* ------------------------------------------------------- the source tables

\* const years = [2021, 2022, 2023, 2024, 2025]
years == <<2021, 2022, 2023, 2024, 2025>>

Years == {years[i] : i \in 1..Len(years)}

\* The ten hard-coded tables, as shipped.
ShippedTables ==
  [localPrice |->
     (2021 :> Lit(140, -1) @@ 2022 :> Lit(150, -1) @@ 2023 :> Lit(230, -1)
      @@ 2024 :> Lit(140, -1) @@ 2025 :> Lit(140, -1)),
   globalPrice |->
     (2021 :> Lit(254, -1) @@ 2022 :> Lit(262, -1) @@ 2023 :> Lit(224, -1)
      @@ 2024 :> Lit(231, -1) @@ 2025 :> Lit(241, -1)),
   mifcoLocalPrice |->
     (2021 :> Lit(140, -1) @@ 2022 :> Lit(150, -1) @@ 2023 :> Lit(250, -1)
      @@ 2024 :> Lit(140, -1) @@ 2025 :> Lit(160, -1)),
   revenueMvr |->
     (2021 :> Lit(1199676000, 0) @@ 2022 :> Lit(1634520000, 0)
      @@ 2023 :> Lit(2008805560, 0) @@ 2024 :> Lit(1075554268, 0) @@ 2025 :> Null),
   netProfitMvr |->
     (2021 :> Null @@ 2022 :> Null @@ 2023 :> Lit(298329409, 0)
      @@ 2024 :> Lit(-165639426, 0) @@ 2025 :> Null),
   subsidyMvr |->
     (2021 :> Null @@ 2022 :> Null @@ 2023 :> Lit(250000000, 0)
      @@ 2024 :> Lit(404356780, 0) @@ 2025 :> Lit(341814184, 0)),
   purchasesTonnes |->
     (2021 :> Lit(88313, 0) @@ 2022 :> Lit(81033, 0) @@ 2023 :> Lit(96120, 0)
      @@ 2024 :> Lit(53232, 0) @@ 2025 :> Null),
   mifcoPurchasesTonnes |->
     (2021 :> Null @@ 2022 :> Lit(55989, 0) @@ 2023 :> Lit(62352, 0)
      @@ 2024 :> Lit(50588, 0) @@ 2025 :> Null),
   exportsTonnes |->
     (2021 :> Lit(66480, 0) @@ 2022 :> Lit(65580, 0) @@ 2023 :> Lit(64350, 0)
      @@ 2024 :> Lit(31730, 0) @@ 2025 :> Null),
   totalCatchTonnes |->
     (2021 :> Lit(144993, 0) @@ 2022 :> Lit(155205, 0) @@ 2023 :> Lit(160683, 0)
      @@ 2024 :> Lit(107666, 0) @@ 2025 :> Null)]

\* ------------------------------------------------------------- buildRows

\* The notes of a row; "" stands for undefined.
Notes(y) ==
  IF y = 2025 THEN "2025 prices YTD; revenue not yet published; subsidy is budgeted"
  ELSE IF y = 2024 THEN "Subsidy recorded net against cost of sales (MVR 4/kg scheme)"
  ELSE IF y = 2023 THEN "Grant recorded in Other Income; fixed price policy in effect (Sep)"
  ELSE ""

\* CashToBoats without the test of purchT for null: a null purchT coerces
\* to 0.
CashToBoatsPurchUnchecked(local, purchT) ==
  IF NotNull(local)
  THEN Number(toFixed(Div(Mul(Mul(local, purchT), Lit(1000, 0)), Lit(1000000, 0)), 1))
  ELSE Null

\* CashToBoats without the factor 1000 from tonnes to kilograms.
CashToBoatsTonnesAsKg(local, purchT) ==
  IF NotNull(local) /\ NotNull(purchT)
  THEN Number(toFixed(Div(Mul(local, purchT), Lit(1000000, 0)), 1))
  ELSE Null

\* local != null && purchT != null
\*   ? Number(((local * purchT * 1000) / 1_000_000).toFixed(1)) : null
CashToBoats(local, purchT) ==
  IF NotNull(local) /\ NotNull(purchT)
  THEN Number(toFixed(Div(Mul(Mul(local, purchT), Lit(1000, 0)), Lit(1000000, 0)), 1))
  ELSE Null

\* PriceGap without the rounding to one decimal.
PriceGapUnrounded(local, global) ==
  IF NotNull(local) /\ NotNull(global) THEN Sub(global, local) ELSE Null

\* local != null && global != null ? Number((global - local).toFixed(1)) : null
PriceGap(local, global) ==
  IF NotNull(local) /\ NotNull(global)
  THEN Number(toFixed(Sub(global, local), 1))
  ELSE Null

\* priceGap != null && local != null
\*   ? Number(((priceGap / local) * 100).toFixed(1)) : null
PriceGapPct(priceGap, local) ==
  IF NotNull(priceGap) /\ NotNull(local)
  THEN Number(toFixed(Mul(Div(priceGap, local), Lit(100, 0)), 1))
  ELSE Null

\* Scaled cutting the quotient off after the first decimal in place of
\* rounding it.
ScaledTruncated(v, unit) ==
  IF NotNull(v)
  THEN LET str == toFixed(Div(v, Lit(unit, 0)), 3)
       IN Number([str EXCEPT !.m = str.m \div 100, !.f = 1])
  ELSE Null

\* v != null ? Number((v / unit).toFixed(1)) : null
Scaled(v, unit) ==
  IF NotNull(v) THEN Number(toFixed(Div(v, Lit(unit, 0)), 1)) ELSE Null

\* ShareOfCatchPct without the test of mifcoPurchT for null: a null
\* mifcoPurchT coerces to 0.
ShareOfCatchPurchUnchecked(mifcoPurchT, catchT) ==
  IF NotNull(catchT)
  THEN Number(toFixed(Mul(Div(mifcoPurchT, catchT), Lit(100, 0)), 1))
  ELSE Null

\* mifcoPurchT != null && catchT != null
\*   ? Number(((mifcoPurchT / catchT) * 100).toFixed(1)) : null
ShareOfCatchPct(mifcoPurchT, catchT) ==
  IF NotNull(mifcoPurchT) /\ NotNull(catchT)
  THEN Number(toFixed(Mul(Div(mifcoPurchT, catchT), Lit(100, 0)), 1))
  ELSE Null

\* The body of the callback of years.map in buildRows: the row of year y
\* read from the tables t.
BuildRow(t, y) ==
  LET local == t.localPrice[y]
      global == t.globalPrice[y]
      revenue == t.revenueMvr[y]
      netProfit == t.netProfitMvr[y]
      subsidy == t.subsidyMvr[y]
      purchT == t.purchasesTonnes[y]
      mifcoLocal == t.mifcoLocalPrice[y]
      exportT == t.exportsTonnes[y]
      catchT == t.totalCatchTonnes[y]
      mifcoPurchT == t.mifcoPurchasesTonnes[y]
      cashToBoatsMvrM == CashToBoats(local, purchT)
      priceGap == PriceGap(local, global)
      priceGapMifco == PriceGap(mifcoLocal, global)
  IN [year |-> ToString(y),
      localPrice |-> local,
      mifcoLocalPrice |-> mifcoLocal,
      globalPrice |-> global,
      priceGap |-> priceGap,
      priceGapPct |-> PriceGapPct(priceGap, local),
      priceGapMifco |-> priceGapMifco,
      priceGapMifcoPct |-> PriceGapPct(priceGapMifco, mifcoLocal),
      revenueMvr |-> revenue,
      netProfitMvr |-> netProfit,
      revenueMvrMillions |-> Scaled(revenue, 1000000),
      netProfitMvrMillions |-> Scaled(netProfit, 1000000),
      subsidyMvr |-> subsidy,
      subsidyMvrMillions |-> Scaled(subsidy, 1000000),
      purchasesKt |-> Scaled(purchT, 1000),
      exportsKt |-> Scaled(exportT, 1000),
      cashToBoatsMvrM |-> cashToBoatsMvrM,
      totalCatchKt |-> Scaled(catchT, 1000),
      mifcoPurchasesKt |-> Scaled(mifcoPurchT, 1000),
      mifcoShareOfCatchPct |-> ShareOfCatchPct(mifcoPurchT, catchT),
      notes |-> Notes(y)]

\* buildRows(): one row per entry of years, in the order of years.
buildRows(t) == [i \in 1..Len(years) |-> BuildRow(t, years[i])]

\* ---------------------------------------------------- variants of yoy

\* yoy without the test of prev for null: a null prev coerces to 0.
yoyPrevUnchecked(curr, prev) ==
  IF ~NotNull(curr) THEN Null
  ELSE IF IsZero(prev) THEN Null
  ELSE Number(toFixed(Mul(Div(Sub(curr, prev), prev), Lit(100, 0)), 1))

\* yoy without the test of prev for 0.
yoyZeroUnguarded(curr, prev) ==
  IF ~NotNull(curr) \/ ~NotNull(prev) THEN Null
  ELSE Number(toFixed(Mul(Div(Sub(curr, prev), prev), Lit(100, 0)), 1))

\* yoy cutting the percentage off after the first decimal in place of
\* rounding it.
yoyTruncated(curr, prev) ==
  IF ~NotNull(curr) \/ ~NotNull(prev) THEN Null
  ELSE IF IsZero(prev) THEN Null
  ELSE LET str == toFixed(Mul(Div(Sub(curr, prev), prev), Lit(100, 0)), 3)
       IN Number([str EXCEPT !.m = str.m \div 100, !.f = 1])

\* yoy returning the percentage through "|| null": a change of 0 is falsy
\* and comes back as null.
yoyFalsyZero(curr, prev) ==
  IF ~NotNull(curr) \/ ~NotNull(prev) THEN Null
  ELSE IF IsZero(prev) THEN Null
  ELSE LET v == Number(toFixed(Mul(Div(Sub(curr, prev), prev), Lit(100, 0)), 1))
       IN IF IsZero(v) THEN Null ELSE v

\* yoy giving 0 for an absent operand.
yoyAbsentAsZero(curr, prev) ==
  IF ~NotNull(curr) \/ ~NotNull(prev) THEN Lit(0, 0)
  ELSE IF IsZero(prev) THEN Null
  ELSE Number(toFixed(Mul(Div(Sub(curr, prev), prev), Lit(100, 0)), 1))

\* ------------------------------------------------------------------- yoy

yoy(curr, prev) ==
  IF ~NotNull(curr) \/ ~NotNull(prev) THEN Null
  ELSE IF IsZero(prev) THEN Null
  ELSE Number(toFixed(Mul(Div(Sub(curr, prev), prev), Lit(100, 0)), 1))

\* PrevField reading the row two positions before idx.
PrevFieldTwoBack(rows, idx, f) == IF idx > 2 THEN rows[idx - 2][f] ELSE Null

\* PrevField reading the first row in place of the row before idx.
PrevFieldOfFirstRow(rows, idx, f) == IF idx > 1 THEN rows[1][f] ELSE Null

\* prev?.f ?? null, for the row before position idx (from 1) of rows: the
\* first row has no previous row.
PrevField(rows, idx, f) == IF idx > 1 THEN rows[idx - 1][f] ELSE Null

\* The five year-over-year fields of the row at position idx of rows.
YoYFields(rows, idx) ==
  [yoyLocal |-> yoy(rows[idx].localPrice, PrevField(rows, idx, "localPrice")),
   yoyGlobal |-> yoy(rows[idx].globalPrice, PrevField(rows, idx, "globalPrice")),
   yoyRevenue |->
     yoy(rows[idx].revenueMvrMillions, PrevField(rows, idx, "revenueMvrMillions")),
   yoyNetProfit |->
     yoy(rows[idx].netProfitMvrMillions, PrevField(rows, idx, "netProfitMvrMillions")),
   yoySubsidy |->
     yoy(rows[idx].subsidyMvrMillions, PrevField(rows, idx, "subsidyMvrMillions"))]

\* WithYoY returning the rows in reverse order.
WithYoYReversed(rows) ==
  [idx \in 1..Len(rows) |->
     rows[Len(rows) + 1 - idx] @@ YoYFields(rows, Len(rows) + 1 - idx)]

\* The callback of the second useMemo of useRowsWithYoY: each row spread
\* into a new object with its five YoY fields.
WithYoY(rows) == [idx \in 1..Len(rows) |-> rows[idx] @@ YoYFields(rows, idx)]

\* ------------------------------------------------------------ the dashboard

\* tables:   the ten hard-coded tables of the build
\* mounted:  MaldivesTunaDashboard has rendered
\* rows:     the value held by the first useMemo of useRowsWithYoY
\* data:     the value held by the second useMemo, const data of the component
\* show...:  the four useState flags of the component
VARIABLES tables, mounted, rows, data, showRevenue, showSubsidy, showGlobal,
          showMifcoPrice

vars == <<tables, mounted, rows, data, showRevenue, showSubsidy, showGlobal,
          showMifcoPrice>>

Fields == DOMAIN ShippedTables

\* How many cells of the tables a build may change from the shipped data.
MaxEdits == 1

\* The values a changed cell takes: absent, zero, amounts that scale to a
\* decimal tie or to less than half a tenth, and a local price of two
\* decimals that exceeds the global price of 2023 by less than half a tenth.
EditValues(f) ==
  IF f = "localPrice" THEN {Null, Lit(0, 0), Lit(200, -1), Lit(2244, -2)}
  ELSE IF f = "mifcoLocalPrice" THEN {Null, Lit(0, 0), Lit(2244, -2)}
  ELSE IF f = "globalPrice" THEN {Null, Lit(0, 0), Lit(200, -1)}
  ELSE IF f = "revenueMvr" THEN {Null, Lit(0, 0), Lit(150000, 0), Lit(40000, 0)}
  ELSE IF f = "netProfitMvr" THEN {Null, Lit(0, 0), Lit(-150000, 0), Lit(-40000, 0)}
  ELSE IF f = "purchasesTonnes" THEN {Null, Lit(0, 0), Lit(50, 0)}
  ELSE {Null, Lit(0, 0)}

\* The cells of t that differ from the shipped data.
Edited(t) == {c \in Fields \X Years : t[c[1]][c[2]] # ShippedTables[c[1]][c[2]]}

Init ==
  /\ tables = ShippedTables
  /\ mounted = FALSE
  /\ rows = <<>>
  /\ data = <<>>
  /\ showRevenue = TRUE
  /\ showSubsidy = TRUE
  /\ showGlobal = TRUE
  /\ showMifcoPrice = TRUE

\* The underlying data changes: one literal of one table is replaced in the
\* source, before the build that is mounted.
EditTable ==
  /\ ~mounted
  /\ Cardinality(Edited(tables)) < MaxEdits
  /\ \E f \in Fields, y \in Years :
       /\ tables[f][y] = ShippedTables[f][y]
       /\ \E v \in EditValues(f) \ {ShippedTables[f][y]} :
            tables' = [tables EXCEPT ![f][y] = v]
  /\ UNCHANGED <<mounted, rows, data, showRevenue, showSubsidy, showGlobal,
                 showMifcoPrice>>

\* The underlying data changes: one table of the source is left without a
\* value for any year, before the build that is mounted.
ClearTable ==
  /\ ~mounted
  /\ tables = ShippedTables
  /\ \E f \in Fields : tables' = [tables EXCEPT ![f] = [y \in Years |-> Null]]
  /\ UNCHANGED <<mounted, rows, data, showRevenue, showSubsidy, showGlobal,
                 showMifcoPrice>>

\* Mount with a YoY pass that writes the YoY fields into the rows of the
\* first useMemo in place of spreading them into new objects.
MountInPlace ==
  /\ ~mounted
  /\ mounted' = TRUE
  /\ rows' = WithYoY(buildRows(tables))
  /\ data' = WithYoY(buildRows(tables))
  /\ showRevenue' = TRUE
  /\ showSubsidy' = TRUE
  /\ showGlobal' = TRUE
  /\ showMifcoPrice' = TRUE
  /\ UNCHANGED tables

\* The first render of MaldivesTunaDashboard: both useMemo callbacks run and
\* the four flags take their initial value.
Mount ==
  /\ ~mounted
  /\ mounted' = TRUE
  /\ rows' = buildRows(tables)
  /\ data' = WithYoY(rows')
  /\ showRevenue' = TRUE
  /\ showSubsidy' = TRUE
  /\ showGlobal' = TRUE
  /\ showMifcoPrice' = TRUE
  /\ UNCHANGED tables

\* ClickGlobal hiding the global price by clearing it in the enriched rows.
ClickGlobalClearingRows ==
  /\ mounted
  /\ showGlobal' = ~showGlobal
  /\ data' = [i \in DOMAIN data |-> [data[i] EXCEPT !.globalPrice = Null]]
  /\ UNCHANGED <<tables, mounted, rows, showRevenue, showSubsidy, showMifcoPrice>>

\* Switch: onClick={() => onCheckedChange(!checked)}.  The re-render reads
\* rows and data from the useMemo caches, whose dependencies did not change.
ClickGlobal ==
  /\ mounted
  /\ showGlobal' = ~showGlobal
  /\ UNCHANGED <<tables, mounted, rows, data, showRevenue, showSubsidy, showMifcoPrice>>

ClickMifcoPrice ==
  /\ mounted
  /\ showMifcoPrice' = ~showMifcoPrice
  /\ UNCHANGED <<tables, mounted, rows, data, showRevenue, showSubsidy, showGlobal>>

ClickRevenue ==
  /\ mounted
  /\ showRevenue' = ~showRevenue
  /\ UNCHANGED <<tables, mounted, rows, data, showSubsidy, showGlobal, showMifcoPrice>>

\* ClickSubsidy with setShowRevenue called as well: two flags change.
ClickSubsidyAndRevenue ==
  /\ mounted
  /\ showSubsidy' = ~showSubsidy
  /\ showRevenue' = ~showRevenue
  /\ UNCHANGED <<tables, mounted, rows, data, showGlobal, showMifcoPrice>>

ClickSubsidy ==
  /\ mounted
  /\ showSubsidy' = ~showSubsidy
  /\ UNCHANGED <<tables, mounted, rows, data, showRevenue, showGlobal, showMifcoPrice>>

Next ==
  \/ EditTable
  \/ ClearTable
  \/ Mount
  \/ ClickGlobal
  \/ ClickMifcoPrice
  \/ ClickRevenue
  \/ ClickSubsidy

Spec == Init /\ [][Next]_vars

\* The pipeline alone: the tables of a build and the first render, which
\* runs buildRows and the YoY pass and computes the headline metrics.  The
\* clicks leave all of these as they are.
RowsNext ==
  \/ EditTable
  \/ ClearTable
  \/ Mount

RowsSpec == Init /\ [][RowsNext]_vars

\* The re-renders alone: the shipped tables, or a build with one table
\* cleared, mounted and clicked.  What a render computes from the rows is
\* compared from click to click here, on every click of every dashboard.
ClickNext ==
  \/ ClearTable
  \/ Mount
  \/ ClickGlobal
  \/ ClickMifcoPrice
  \/ ClickRevenue
  \/ ClickSubsidy

ClickSpec == Init /\ [][ClickNext]_vars

\* ------------------------------------------------------ headline metrics

\* d[i]?.f ?? null, for the position i (from 1) of d.
RowField(d, i, f) == IF i \in DOMAIN d THEN d[i][f] ELSE Null

\* latest read from the last position, data[data.length - 1].
LatestFieldLastRow(d, f) == RowField(d, Len(d), f)

\* const latest = data[data.length - 2]; const prev = data[data.length - 3]
LatestField(d, f) == RowField(d, Len(d) - 1, f)

\* prev read one position further back, data[data.length - 4].
PrevYearFieldOneBack(d, f) == RowField(d, Len(d) - 3, f)

PrevYearField(d, f) == RowField(d, Len(d) - 2, f)

\* l != null && p != null ? Number((((l - p) / p) * 100).toFixed(1)) : null
HeadlinePct(l, p) ==
  IF NotNull(l) /\ NotNull(p)
  THEN Number(toFixed(Mul(Div(Sub(l, p), p), Lit(100, 0)), 1))
  ELSE Null

\* FindIndex counting the rows from 0, the position read from 1: the row
\* before the one of the year.
FindIndexFromZero(d, yr) ==
  IF \E i \in DOMAIN d : d[i].year = yr
  THEN (CHOOSE i \in DOMAIN d :
          d[i].year = yr /\ \A j \in 1..(i - 1) : d[j].year # yr) - 1
  ELSE 0

\* d.findIndex((r) => r.year === yr), from 1; 0 when no row has the year.
FindIndex(d, yr) ==
  IF \E i \in DOMAIN d : d[i].year = yr
  THEN CHOOSE i \in DOMAIN d :
         d[i].year = yr /\ \A j \in 1..(i - 1) : d[j].year # yr
  ELSE 0

\* d.find((r) => r.year === yr)?.f ?? null
FindField(d, yr, f) == RowField(d, FindIndex(d, yr), f)

\* GapsEx2023 without the filter on the year: the gap of 2023 counts.
GapsOfAllYears(d) ==
  SelectSeq([i \in 1..Len(d) |-> d[i].priceGap], NotNull)

\* data.filter((r) => r.year !== "2023")
\*   .map((r) => (r.priceGap != null ? r.priceGap : null)).filter((x) => x != null)
GapsEx2023(d) ==
  LET sel == SelectSeq(d, LAMBDA r : r.year # "2023")
  IN SelectSeq([i \in 1..Len(sel) |-> sel[i].priceGap], NotNull)

\* x mod m, in 0..(m - 1) for a negative x too.
Mod(x, m) == ((x % m) + m) % m

RECURSIVE Pow2Mod(_, _)
\* 2^p mod m
Pow2Mod(p, m) == IF p = 0 THEN 1 % m ELSE (2 * Pow2Mod(p - 1, m)) % m

RECURSIVE TwoExp(_)
\* c = 2^TwoExp(c) * OddPart(c)
TwoExp(c) == IF c % 2 = 0 THEN 1 + TwoExp(c \div 2) ELSE 0

OddPart(c) == c \div Pow(2, TwoExp(c))

\* The sums of price gaps are sums of binary64 numbers that are not the
\* decimals they stand for, and a mean of them can lie half way between two
\* tenths (the shipped gaps give 41.8 / 4 = 10.45), where toFixed goes by the
\* side of the binary64 value. A binary64 number near t / c is kept as its
\* deviation k from t / c in units of 1 / (c * 2^56): it is
\* (t * 2^56 + k) / (c * 2^56). RoundDev is the deviation of the binary64
\* number nearest to that value (ties to the even significand), for t # 0
\* and 2^-6 < |t / c| < 2^12.
RoundDev(t, c, k) ==
  LET sg == IF t > 0 THEN 1 ELSE -1
      T == sg * t
      K == sg * k
      Ge(e) == IF e >= 0
               THEN T > c * Pow(2, e) \/ (T = c * Pow(2, e) /\ K >= 0)
               ELSE T * Pow(2, -e) > c \/ (T * Pow(2, -e) = c /\ K >= 0)
      e == CHOOSE x \in -8..12 : Ge(x) /\ ~Ge(x + 1)
      o == OddPart(c)
      s == TwoExp(c) + e + 4
      U == o * Pow(2, s)
      R == Mod(Pow(2, s) * ((T * Pow2Mod(56 - s, o)) % o) + K, U)
      R2 == Mod(Pow(2, s) * ((T * Pow2Mod(56 - s, 2 * o)) % (2 * o)) + K, 2 * U)
      down == IF 2 * R = U THEN R2 < U ELSE 2 * R < U
  IN sg * (IF down THEN K - R ELSE K + U - R)

\* The binary64 number of the literal x of one decimal
DevOf(x) ==
  LET t == x.s * x.n * Pow10(x.e + 1)
  IN [t |-> t, k |-> IF t = 0 THEN 0 ELSE RoundDev(t, 10, 0)]

\* a + b: a sum whose decimal is 0 is a difference of neighbours, exact
AddDev(a, b) ==
  LET t == a.t + b.t
      k == a.k + b.k
  IN [t |-> t, k |-> IF t = 0 THEN k ELSE RoundDev(t, 10, k)]

\* gaps.reduce((a, b) => a + b, acc)
RECURSIVE Reduce(_, _)
Reduce(gaps, acc) ==
  IF gaps = <<>> THEN acc ELSE Reduce(Tail(gaps), AddDev(acc, DevOf(Head(gaps))))

\* if (!gaps.length) return null;
\* return Number((gaps.reduce(..., 0) / gaps.length).toFixed(1))
\* The quotient is within 2^-40 of t / (10 * n): its side matters to toFixed
\* only when t / n lies half way between two integers.
AvgGap(gaps) ==
  IF Len(gaps) = 0 THEN Null
  ELSE LET n == Len(gaps)
           sum == Reduce(gaps, [t |-> 0, k |-> 0])
           sg == IF sum.t > 0 \/ (sum.t = 0 /\ sum.k >= 0) THEN 1 ELSE -1
           T == sg * sum.t
           z == T \div n
           r == T % n
           up == IF 2 * r = n
                 THEN sg * RoundDev(sum.t, 10 * n, sum.k) >= 0
                 ELSE 2 * r > n
       IN Number([t |-> "digits", neg |-> sg = -1, m |-> IF up THEN z + 1 ELSE z, f |-> 1])

\* The values one render of MaldivesTunaDashboard computes from the enriched
\* rows d, between the reading of latest and prev and the return statement.
\* Every render evaluates them anew; they read d and nothing else.

\* yoy(latest?.localPrice ?? null, prev?.localPrice ?? null)
PriceCollapse(d) == yoy(LatestField(d, "localPrice"), PrevYearField(d, "localPrice"))

RevenueDrop(d) ==
  HeadlinePct(LatestField(d, "revenueMvrMillions"), PrevYearField(d, "revenueMvrMillions"))

SubsidyYoY(d) ==
  HeadlinePct(LatestField(d, "subsidyMvrMillions"), PrevYearField(d, "subsidyMvrMillions"))

PurchasesDrop(d) == HeadlinePct(LatestField(d, "purchasesKt"), PrevYearField(d, "purchasesKt"))

ExportsDrop(d) == HeadlinePct(LatestField(d, "exportsKt"), PrevYearField(d, "exportsKt"))

\* const rev23 = data.find((r) => r.year === "2023")?.revenueMvrMillions ?? null
\* (yr = "2023"), and rev24 likewise
Rev(d, yr) == FindField(d, yr, "revenueMvrMillions")

\* rev23 != null && rev24 != null ? Number((rev23 - rev24).toFixed(1)) : null
RevenueLossMvrM(d) ==
  IF NotNull(Rev(d, "2023")) /\ NotNull(Rev(d, "2024"))
  THEN Number(toFixed(Sub(Rev(d, "2023"), Rev(d, "2024")), 1))
  ELSE Null

\* RevenueLossMvrBn rounded to one decimal in place of two.
RevenueLossMvrBnOneDecimal(d) ==
  IF NotNull(RevenueLossMvrM(d))
  THEN Number(toFixed(Div(RevenueLossMvrM(d), Lit(1000, 0)), 1))
  ELSE Null

\* revenueLossMvrM != null ? Number((revenueLossMvrM / 1000).toFixed(2)) : null
RevenueLossMvrBn(d) ==
  IF NotNull(RevenueLossMvrM(d))
  THEN Number(toFixed(Div(RevenueLossMvrM(d), Lit(1000, 0)), 2))
  ELSE Null

AvgGapEx2023(d) == AvgGap(GapsEx2023(d))

Render(d) ==
  [priceCollapse |-> PriceCollapse(d),
   revenueDrop |-> RevenueDrop(d),
   subsidyYoY |-> SubsidyYoY(d),
   purchasesDrop |-> PurchasesDrop(d),
   exportsDrop |-> ExportsDrop(d),
   revenueLossMvrM |-> RevenueLossMvrM(d),
   revenueLossMvrBn |-> RevenueLossMvrBn(d),
   avgGapEx2023 |-> AvgGapEx2023(d)]

\* The values of the render of the mounted component.
priceCollapse == PriceCollapse(data)

revenueDrop == RevenueDrop(data)

subsidyYoY == SubsidyYoY(data)

purchasesDrop == PurchasesDrop(data)

exportsDrop == ExportsDrop(data)

revenueLossMvrM == RevenueLossMvrM(data)

revenueLossMvrBn == RevenueLossMvrBn(data)

avgGapEx2023 == AvgGapEx2023(data)

\* ------------------------------------------------------------------ claims

\* Each YoY field with the row field it is computed from.
YoYPairs ==
  {<<"yoyLocal", "localPrice">>, <<"yoyGlobal", "globalPrice">>,
   <<"yoyRevenue", "revenueMvrMillions">>, <<"yoyNetProfit", "netProfitMvrMillions">>,
   <<"yoySubsidy", "subsidyMvrMillions">>}

\* C1: in every row after the first, a YoY field is null whenever the value
\* of its metric is absent in the row or in the row before it.
C1_AbsentOperandAbsentYoY ==
  \A idx \in 2..Len(data) : \A p \in YoYPairs :
    (~NotNull(data[idx][p[2]]) \/ ~NotNull(data[idx - 1][p[2]]))
      => data[idx][p[1]] = Null

\* A row whose metric is present while the row before lacks it, with a null
\* YoY field.
C1_Witness ==
  /\ mounted
  /\ \E idx \in 2..Len(data) : \E p \in YoYPairs :
       /\ NotNull(data[idx][p[2]])
       /\ ~NotNull(data[idx - 1][p[2]])
       /\ data[idx][p[1]] = Null

\* The numeric values a row holds for the metrics of the YoY fields.
MetricValues == {data[i][p[2]] : i \in DOMAIN data, p \in YoYPairs} \ {Null}

\* C2: a YoY field is null whenever the previous row's metric is exactly 0
\* and the current one is present, and yoy(curr, 0) is null for +0 and -0.
C2_ZeroPrevAbsentYoY ==
  /\ \A idx \in 2..Len(data) : \A p \in YoYPairs :
       (IsZero(data[idx - 1][p[2]]) /\ NotNull(data[idx][p[2]]))
         => data[idx][p[1]] = Null
  /\ \A c \in MetricValues :
       yoy(c, Lit(0, 0)) = Null /\ yoy(c, Neg(Lit(0, 0))) = Null

\* A row with a present, non-zero metric after a row where it is 0, with a
\* null YoY field.
C2_Witness ==
  /\ mounted
  /\ \E idx \in 2..Len(data) : \E p \in YoYPairs :
       /\ IsZero(data[idx - 1][p[2]])
       /\ NotNull(data[idx][p[2]])
       /\ ~IsZero(data[idx][p[2]])
       /\ data[idx][p[1]] = Null

\* Each headline metric with the row field it compares and the table the
\* field is scaled from.
Headlines ==
  {<<revenueDrop, "revenueMvrMillions", "revenueMvr">>,
   <<subsidyYoY, "subsidyMvrMillions", "subsidyMvr">>,
   <<purchasesDrop, "purchasesKt", "purchasesTonnes">>,
   <<exportsDrop, "exportsKt", "exportsTonnes">>}

\* C3: a headline metric is null when the 2023 value of its metric is 0 and
\* the 2024 value is present.  The component computes the four headline
\* metrics inline, without the test of yoy for a zero divisor.
C3_HeadlineZeroPrevAbsent ==
  mounted =>
    \A h \in Headlines :
      (IsZero(tables[h[3]][2023]) /\ NotNull(tables[h[3]][2024])) => h[1] = Null

\* The numeric fields buildRows derives.
DerivedFields ==
  {"priceGap", "priceGapPct", "priceGapMifco", "priceGapMifcoPct",
   "revenueMvrMillions", "netProfitMvrMillions", "subsidyMvrMillions",
   "purchasesKt", "exportsKt", "cashToBoatsMvrM", "totalCatchKt",
   "mifcoPurchasesKt", "mifcoShareOfCatchPct"}

\* C4: every derived field of every row of buildRows is a finite number or
\* null, for tables whose cells are finite numbers or absent.
C4_RowsFiniteOrAbsent ==
  \A i \in DOMAIN rows : \A f \in DerivedFields :
    rows[i][f] = Null \/ IsFinite(rows[i][f])

\* Each derived field with the tables of its raw operands.
Operands ==
  [priceGap |-> {"localPrice", "globalPrice"},
   priceGapPct |-> {"localPrice", "globalPrice"},
   priceGapMifco |-> {"mifcoLocalPrice", "globalPrice"},
   priceGapMifcoPct |-> {"mifcoLocalPrice", "globalPrice"},
   cashToBoatsMvrM |-> {"localPrice", "purchasesTonnes"},
   mifcoShareOfCatchPct |-> {"mifcoPurchasesTonnes", "totalCatchTonnes"},
   revenueMvrMillions |-> {"revenueMvr"},
   netProfitMvrMillions |-> {"netProfitMvr"},
   subsidyMvrMillions |-> {"subsidyMvr"},
   purchasesKt |-> {"purchasesTonnes"},
   exportsKt |-> {"exportsTonnes"},
   totalCatchKt |-> {"totalCatchTonnes"},
   mifcoPurchasesKt |-> {"mifcoPurchasesTonnes"}]

\* C5: a derived field of a row is present only if every raw operand of it
\* is present in the tables for the year of the row.
C5_PresentOnlyIfOperandsPresent ==
  \A i \in DOMAIN rows : \A f \in DerivedFields :
    NotNull(rows[i][f]) => \A o \in Operands[f] : NotNull(tables[o][years[i]])

\* A row with a field of two operands of which one is absent and the other
\* present, the field absent, beside a present derived field.
C5_Witness ==
  /\ mounted
  /\ \E i \in DOMAIN rows : \E f \in DerivedFields :
       /\ \E o \in Operands[f] : ~NotNull(tables[o][years[i]])
       /\ \E o \in Operands[f] : NotNull(tables[o][years[i]])
       /\ rows[i][f] = Null
       /\ \E g \in DerivedFields : NotNull(rows[i][g])

\* C6: the rows and the enriched rows have one row per entry of years, row i
\* carrying the year of entry i; the years are strictly ascending and the
\* years of the output are pairwise different.
C6_OneRowPerYearInOrder ==
  mounted =>
    /\ Len(rows) = Len(years)
    /\ Len(data) = Len(rows)
    /\ \A i \in 1..Len(years) :
         rows[i].year = ToString(years[i]) /\ data[i].year = rows[i].year
    /\ \A i, j \in 1..Len(years) : i < j => years[i] < years[j]
    /\ \A i, j \in DOMAIN data : i # j => data[i].year # data[j].year

\* The dashboard mounted on five rows, the first of 2021 and the last of
\* 2025, each with its YoY fields.
C6_Witness ==
  /\ mounted
  /\ Len(data) = 5
  /\ data[1].year = "2021"
  /\ data[5].year = "2025"
  /\ \A i \in DOMAIN data : \A p \in YoYPairs : p[1] \in DOMAIN data[i]

ShippedData == WithYoY(buildRows(ShippedTables))

\* No cell of year y differs from the shipped tables.
YearUnchanged(y) == \A f \in Fields : tables[f][y] = ShippedTables[f][y]

YoYNames == {p[1] : p \in YoYPairs}

\* C8: against the shipped tables, a row whose year has no changed cell
\* keeps every field that is not a YoY field, and keeps its YoY fields too
\* when the year before it has no changed cell either.
C8_RowDependsOnOwnAndPreviousYear ==
  mounted =>
    \A base \in {ShippedData} : \A i \in DOMAIN data :
      /\ YearUnchanged(years[i]) =>
           \A f \in (DOMAIN data[i]) \ YoYNames : data[i][f] = base[i][f]
      /\ (YearUnchanged(years[i]) /\ (i > 1 => YearUnchanged(years[i - 1]))) =>
           \A f \in YoYNames : data[i][f] = base[i][f]

\* A change of year k alone that changes row k and a YoY field of row k + 1
\* and nothing else.
C8_Witness ==
  /\ mounted
  /\ \E base \in {ShippedData} : \E k \in 1..(Len(data) - 1) :
       /\ ~YearUnchanged(years[k])
       /\ \A j \in DOMAIN data : j # k => YearUnchanged(years[j])
       /\ \E f \in (DOMAIN data[k]) \ YoYNames : data[k][f] # base[k][f]
       /\ \E f \in YoYNames : data[k + 1][f] # base[k + 1][f]
       /\ \A f \in (DOMAIN data[k + 1]) \ YoYNames : data[k + 1][f] = base[k + 1][f]
       /\ \A j \in DOMAIN data : (j # k /\ j # k + 1) => data[j] = base[j]

\* The multiple of 0.1 nearest to the finite number x, the one further
\* from zero when two are as near.
RoundHalfAway(x) ==
  LET N == IF x.e + 1 >= 0 THEN x.n * Pow10(x.e + 1) ELSE x.n
      D == IF x.e + 1 >= 0 THEN x.d ELSE x.d * Pow10(-(x.e + 1))
  IN Num(x.s, IF 2 * (N % D) >= D THEN (N \div D) + 1 ELSE N \div D, 1, -1, FALSE)

\* a and b are the same finite number (-0 and +0 are).
SameNumber(a, b) ==
  /\ IsFinite(a) /\ IsFinite(b)
  /\ a.n = b.n /\ a.d = b.d /\ a.e = b.e
  /\ (a.n = 0 \/ a.s = b.s)

\* The value of the formula of the derived field f of the row at position
\* i, before rounding.
Unrounded(i, f) ==
  LET y == years[i]
      r == data[i]
  IN CASE f = "priceGap" -> Sub(r.globalPrice, r.localPrice)
       [] f = "priceGapMifco" -> Sub(r.globalPrice, r.mifcoLocalPrice)
       [] f = "priceGapPct" -> Mul(Div(r.priceGap, r.localPrice), Lit(100, 0))
       [] f = "priceGapMifcoPct" ->
            Mul(Div(r.priceGapMifco, r.mifcoLocalPrice), Lit(100, 0))
       [] f = "cashToBoatsMvrM" ->
            Div(Mul(Mul(r.localPrice, tables.purchasesTonnes[y]), Lit(1000, 0)),
                Lit(1000000, 0))
       [] f = "mifcoShareOfCatchPct" ->
            Mul(Div(tables.mifcoPurchasesTonnes[y], tables.totalCatchTonnes[y]),
                Lit(100, 0))
       [] f \in {"revenueMvrMillions", "netProfitMvrMillions", "subsidyMvrMillions"} ->
            Div(CHOOSE v \in {tables[o][y] : o \in Operands[f]} : TRUE, Lit(1000000, 0))
       [] OTHER -> Div(CHOOSE v \in {tables[o][y] : o \in Operands[f]} : TRUE, Lit(1000, 0))

\* The value of the formula of the YoY field of the pair p of the row at
\* position i > 1, before rounding.
UnroundedYoY(i, p) ==
  Mul(Div(Sub(data[i][p[2]], data[i - 1][p[2]]), data[i - 1][p[2]]), Lit(100, 0))

\* C9: every present derived field and every present YoY field is the
\* multiple of 0.1 nearest to the value of its formula, ties away from zero.
\* The shipped tables refute it (64350 / 1000 is the tie 64.35, the binary64
\* quotient lies below it and toFixed gives 64.3), and so does a field that
\* is Infinity.
C9_RoundedHalfAwayFromZero ==
  /\ \A i \in DOMAIN data : \A f \in DerivedFields :
       NotNull(data[i][f]) =>
         /\ IsFinite(Unrounded(i, f))
         /\ SameNumber(data[i][f], RoundHalfAway(Unrounded(i, f)))
  /\ \A i \in 2..Len(data) : \A p \in YoYPairs :
       NotNull(data[i][p[1]]) =>
         /\ IsFinite(UnroundedYoY(i, p))
         /\ SameNumber(data[i][p[1]], RoundHalfAway(UnroundedYoY(i, p)))

\* Each field in millions of MVR with the table it is scaled from.
Millions ==
  {<<"revenueMvrMillions", "revenueMvr">>, <<"netProfitMvrMillions", "netProfitMvr">>,
   <<"subsidyMvrMillions", "subsidyMvr">>}

\* The integer value of the finite integer number x, sign included.
IntOf(x) == x.s * x.n * Pow10(x.e)

\* The tenths of the number x of at most one decimal, sign included.
Tenths(x) == x.s * x.n * Pow10(x.e + 1)

\* C10: a present monetary value v of the tables and its field m in millions
\* satisfy |m * 1,000,000 - v| <= 50,000.
C10_MillionsRoundTrip ==
  \A i \in DOMAIN rows : \A p \in Millions :
    NotNull(tables[p[2]][years[i]]) =>
      /\ IsFinite(rows[i][p[1]])
      /\ rows[i][p[1]].d = 1
      /\ rows[i][p[1]].e >= -1
      /\ Tenths(rows[i][p[1]]) * 100000 - IntOf(tables[p[2]][years[i]]) <= 50000
      /\ IntOf(tables[p[2]][years[i]]) - Tenths(rows[i][p[1]]) * 100000 <= 50000

\* The net profit -165639426 scaled to -165.6, a revenue scaled to a value
\* that is not the exact quotient, and a value scaled to exactly half a
\* tenth away.
C10_Witness ==
  /\ mounted
  /\ \E i \in DOMAIN rows :
       /\ tables.netProfitMvr[years[i]] = Lit(-165639426, 0)
       /\ rows[i].netProfitMvrMillions = Lit(-1656, -1)
  /\ \E i \in DOMAIN rows :
       /\ NotNull(tables.revenueMvr[years[i]])
       /\ Tenths(rows[i].revenueMvrMillions) * 100000 # IntOf(tables.revenueMvr[years[i]])
  /\ \E i \in DOMAIN rows : \E p \in Millions :
       /\ NotNull(tables[p[2]][years[i]])
       /\ IntOf(tables[p[2]][years[i]]) - Tenths(rows[i][p[1]]) * 100000 \in {50000, -50000}

\* C11: with the shipped revenue of 2023 and 2024, the row of 2023 has
\* revenueMvrMillions 2008.8, the row of 2024 has 1075.6, and the yoyRevenue
\* of the row of 2024 is -46.5: (1075.6 - 2008.8) / 2008.8 * 100 is
\* -46.4556..., whose nearest tenth is -46.5.
C11_ShippedRevenueYoY ==
  (/\ mounted
   /\ tables.revenueMvr[2023] = Lit(2008805560, 0)
   /\ tables.revenueMvr[2024] = Lit(1075554268, 0)) =>
    /\ FindField(data, "2023", "revenueMvrMillions") = Lit(20088, -1)
    /\ FindField(data, "2024", "revenueMvrMillions") = Lit(10756, -1)
    /\ FindField(data, "2024", "yoyRevenue") = Lit(-465, -1)

\* C11 as stated: the yoyRevenue of the row of 2024 is -46.4.
C11_AsStated ==
  (/\ mounted
   /\ tables.revenueMvr[2023] = Lit(2008805560, 0)
   /\ tables.revenueMvr[2024] = Lit(1075554268, 0)) =>
    /\ FindField(data, "2023", "revenueMvrMillions") = Lit(20088, -1)
    /\ FindField(data, "2024", "revenueMvrMillions") = Lit(10756, -1)
    /\ FindField(data, "2024", "yoyRevenue") = Lit(-464, -1)

\* The dashboard of the shipped tables, with a present yoyRevenue in the row
\* of 2024.
C11_Witness ==
  /\ mounted
  /\ Edited(tables) = {}
  /\ NotNull(FindField(data, "2024", "yoyRevenue"))

\* C12: with the shipped local price of 2023 (23.0) and of 2024 (14.0), the
\* yoyLocal of the row of 2024 is -39.1 and the headline priceCollapse is
\* the same value.
C12_ShippedPriceCollapse ==
  (/\ mounted
   /\ tables.localPrice[2023] = Lit(230, -1)
   /\ tables.localPrice[2024] = Lit(140, -1)) =>
    /\ FindField(data, "2024", "yoyLocal") = Lit(-391, -1)
    /\ \A pc \in {priceCollapse} :
         pc = Lit(-391, -1) /\ pc = FindField(data, "2024", "yoyLocal")

\* The dashboard of tables changed in a cell other than the local price of
\* 2023 and 2024, with a present priceCollapse.
C12_Witness ==
  /\ mounted
  /\ Edited(tables) # {}
  /\ tables.localPrice[2023] = Lit(230, -1)
  /\ tables.localPrice[2024] = Lit(140, -1)
  /\ IsNegative(priceCollapse)

\* C13: with the shipped subsidy absent for 2021 and for 2022, the
\* yoySubsidy of the row of 2022 is absent (not 0), and the yoySubsidy of the
\* row of 2023 is absent as well, whether or not the subsidy of 2023 is
\* present.
C13_AbsentSubsidyYoY ==
  (/\ mounted
   /\ tables.subsidyMvr[2021] = Null
   /\ tables.subsidyMvr[2022] = Null) =>
    /\ FindField(data, "2022", "yoySubsidy") = Null
    /\ FindField(data, "2022", "yoySubsidy") # Lit(0, 0)
    /\ FindField(data, "2023", "yoySubsidy") = Null

\* The shipped tables mounted: the subsidy of 2023 is present in its row and
\* the subsidy of 2022 is not.
C13_Witness ==
  /\ mounted
  /\ Edited(tables) = {}
  /\ FindField(data, "2022", "subsidyMvrMillions") = Null
  /\ NotNull(FindField(data, "2023", "subsidyMvrMillions"))
  /\ NotNull(FindField(data, "2024", "yoySubsidy"))

\* C14: with the shipped MIFCO purchases and total catch, the
\* mifcoShareOfCatchPct of the row of 2024 is 47.0, and the
\* mifcoShareOfCatchPct of the rows of 2021 and of 2025 is absent.
C14_ShippedShareOfCatch ==
  /\ (/\ mounted
      /\ tables.mifcoPurchasesTonnes[2024] = Lit(50588, 0)
      /\ tables.totalCatchTonnes[2024] = Lit(107666, 0)) =>
       FindField(data, "2024", "mifcoShareOfCatchPct") = Lit(470, -1)
  /\ (mounted /\ tables.mifcoPurchasesTonnes[2021] = Null) =>
       FindField(data, "2021", "mifcoShareOfCatchPct") = Null
  /\ (mounted /\ tables.mifcoPurchasesTonnes[2025] = Null) =>
       FindField(data, "2025", "mifcoShareOfCatchPct") = Null

\* The shipped MIFCO purchases and catch mounted: the share of 2024 is
\* present, the total catch of 2021 is present and its MIFCO purchases are
\* not.
C14_Witness ==
  /\ mounted
  /\ \A y \in Years :
       /\ tables.mifcoPurchasesTonnes[y] = ShippedTables.mifcoPurchasesTonnes[y]
       /\ tables.totalCatchTonnes[y] = ShippedTables.totalCatchTonnes[y]
  /\ NotNull(FindField(data, "2024", "mifcoShareOfCatchPct"))
  /\ NotNull(FindField(data, "2021", "totalCatchKt"))
  /\ FindField(data, "2021", "mifcoPurchasesKt") = Null

\* v is a multiple of 0.1 nearest to the finite number x (either of the two
\* when x lies half way between them).
NearestTenth(v, x) ==
  LET N == IF x.e + 1 >= 0 THEN x.n * Pow10(x.e + 1) ELSE x.n
      D == IF x.e + 1 >= 0 THEN x.d ELSE x.d * Pow10(-(x.e + 1))
      q == N \div D
      r == N % D
  IN \E m \in {q, q + 1} :
       /\ SameNumber(v, Num(x.s, m, 1, -1, FALSE))
       /\ IF m = q THEN 2 * r <= D ELSE 2 * r >= D

\* C15: in every row after the first, a YoY field whose metric is present in
\* the row and present and not zero in the row before it is the percentage
\* change (curr - prev) / prev * 100 against the row one position before,
\* rounded to one decimal; every YoY field of the first row is absent.
C15_YoYAgainstPreviousRow ==
  /\ \A idx \in 2..Len(data) : \A p \in YoYPairs :
       (/\ NotNull(data[idx][p[2]])
        /\ NotNull(data[idx - 1][p[2]])
        /\ ~IsZero(data[idx - 1][p[2]])) =>
         /\ IsFinite(data[idx][p[1]])
         /\ IsFinite(UnroundedYoY(idx, p))
         /\ NearestTenth(data[idx][p[1]], UnroundedYoY(idx, p))
  /\ \A p \in YoYPairs : mounted => data[1][p[1]] = Null

\* A mounted dashboard of changed tables in which the change against the row
\* before differs from the change against the row two before.
C15_Witness ==
  /\ mounted
  /\ Edited(tables) # {}
  /\ \E idx \in 3..Len(data) : \E p \in YoYPairs :
       /\ NotNull(data[idx][p[1]])
       /\ NotNull(data[idx - 2][p[2]])
       /\ data[idx - 2][p[2]] # data[idx - 1][p[2]]
       /\ NotNull(data[1][p[2]])

\* C16: once the dashboard is mounted, no step (a click on one of the four
\* switches and the re-render it causes) changes a field of a row or of an
\* enriched row, or a value the render computes from them (priceCollapse,
\* revenueDrop, subsidyYoY, purchasesDrop, exportsDrop, revenueLossMvrBn,
\* avgGapEx2023): they stay what they were at the first render.
C16_RowsAndHeadlinesNeverChange ==
  [][mounted =>
       /\ rows' = rows
       /\ data' = data
       /\ \A d \in {data'} : Render(d) = Render(data)]_vars

\* A dashboard of a build with one table cleared, after clicks on all four
\* switches, with the two summaries over the whole sequence present.
C16_Witness ==
  /\ mounted
  /\ ~showRevenue /\ ~showSubsidy /\ ~showGlobal /\ ~showMifcoPrice
  /\ Edited(tables) # {}
  /\ NotNull(revenueLossMvrBn)
  /\ NotNull(avgGapEx2023)

\* Each gap field with its percentage field and the local price it is taken
\* against.
GapFields ==
  {<<"priceGap", "priceGapPct", "localPrice">>,
   <<"priceGapMifco", "priceGapMifcoPct", "mifcoLocalPrice">>}

\* C17: in every row with the local (MIFCO local) price and the global price
\* present, the gap is global - local rounded to one decimal and the gap
\* percentage is the rounded gap / local * 100 rounded to one decimal (not
\* finite when the local price is 0); the gap is negative only when the
\* local price exceeds the global price, and whenever it exceeds it by 0.1 or
\* more; the shipped prices of 2023 give a priceGap of -0.6.
C17_GapsFromRoundedDifference ==
  /\ \A i \in DOMAIN data : \A g \in GapFields :
       LET gap == data[i][g[1]]
           pct == data[i][g[2]]
           local == data[i][g[3]]
           global == data[i].globalPrice
       IN (NotNull(local) /\ NotNull(global)) =>
            /\ IsFinite(gap)
            /\ NearestTenth(gap, Sub(global, local))
            /\ IF IsZero(local) THEN NotNull(pct) /\ ~IsFinite(pct)
               ELSE /\ IsFinite(pct)
                    /\ NearestTenth(pct, Mul(Div(gap, local), Lit(100, 0)))
            /\ IsNegative(gap) => IsNegative(Sub(global, local))
            /\ ~IsNegative(Sub(Sub(local, global), Lit(1, -1))) => IsNegative(gap)
  /\ (/\ mounted
      /\ tables.localPrice[2023] = Lit(230, -1)
      /\ tables.globalPrice[2023] = Lit(224, -1)) =>
       FindField(data, "2023", "priceGap") = Lit(-6, -1)

\* C17 as stated: the gap is negative exactly when the local price exceeds
\* the global price.
C17_AsStated ==
  \A i \in DOMAIN data : \A g \in GapFields :
    LET gap == data[i][g[1]]
        pct == data[i][g[2]]
        local == data[i][g[3]]
        global == data[i].globalPrice
    IN (NotNull(local) /\ NotNull(global)) =>
         /\ IsFinite(gap)
         /\ NearestTenth(gap, Sub(global, local))
         /\ IsZero(local)
            \/ (IsFinite(pct) /\ NearestTenth(pct, Mul(Div(gap, local), Lit(100, 0))))
         /\ IsNegative(gap) <=> IsNegative(Sub(global, local))

\* A row whose local price exceeds its global price by less than half a
\* tenth: the gap is zero and so is the gap percentage, which the
\* difference before rounding would not give.
C17_Witness ==
  /\ mounted
  /\ \E i \in DOMAIN data :
       /\ NotNull(data[i].localPrice) /\ NotNull(data[i].globalPrice)
       /\ IsNegative(Sub(data[i].globalPrice, data[i].localPrice))
       /\ IsZero(data[i].priceGap)
       /\ IsZero(data[i].priceGapPct)
  /\ \E j \in DOMAIN data : IsNegative(data[j].priceGapMifco)

\* The amount of the fallback text "0.93 bn MVR loss", shown when
\* revenueLossMvrBn is null.
FallbackRevenueLossBn == Lit(93, -2)

\* C18: with the revenueMvrMillions of the row of 2023 and of the row of
\* 2024 present, revenueLossMvrM is their difference rounded to one decimal
\* and revenueLossMvrBn is revenueLossMvrM / 1000 rounded to two decimals;
\* revenueLossMvrBn is absent when either is absent; the shipped revenue
\* gives a loss of 933.2 millions and 0.93 billions, the amount of the
\* fallback text.
C18_RevenueLossBn ==
  \A lossM \in {revenueLossMvrM}, lossBn \in {revenueLossMvrBn} :
    /\ \A i, j \in DOMAIN data :
         (data[i].year = "2023" /\ data[j].year = "2024") =>
           LET r23 == data[i].revenueMvrMillions
               r24 == data[j].revenueMvrMillions
           IN IF NotNull(r23) /\ NotNull(r24)
              THEN /\ IsFinite(lossM)
                   /\ NearestTenth(lossM, Sub(r23, r24))
                   /\ IsFinite(lossBn)
                   /\ NearestTenth(Mul(lossBn, Lit(10, 0)), Div(lossM, Lit(100, 0)))
              ELSE lossBn = Null
    /\ (/\ mounted
        /\ tables.revenueMvr[2023] = Lit(2008805560, 0)
        /\ tables.revenueMvr[2024] = Lit(1075554268, 0)) =>
         /\ lossM = Lit(9332, -1)
         /\ lossBn = Lit(93, -2)
         /\ lossBn = FallbackRevenueLossBn

\* A mounted dashboard of changed tables whose revenue loss is present and
\* negative: the revenue of 2023 is below that of 2024.
C18_Witness ==
  /\ mounted
  /\ Edited(tables) # {}
  /\ NotNull(revenueLossMvrBn)
  /\ revenueLossMvrBn # FallbackRevenueLossBn
  /\ IsNegative(revenueLossMvrBn)

\* The positions of the rows of d whose gap counts in the average: the year
\* is not 2023 and priceGap is present.
CountedRows(d) == {i \in DOMAIN d : d[i].year # "2023" /\ NotNull(d[i].priceGap)}

RECURSIVE SumOfGaps(_, _)
\* The sum of the priceGap of the rows of d at the positions S.
SumOfGaps(d, S) ==
  IF S = {} THEN Lit(0, 0)
  ELSE LET i == CHOOSE x \in S : TRUE
       IN Add(d[i].priceGap, SumOfGaps(d, S \ {i}))

\* C19: avgGapEx2023 is the sum of the priceGap of the rows whose year is
\* not 2023 and whose priceGap is present, divided by the number of those
\* rows and rounded to one decimal; it is absent when there is no such row.
\* Neither an absent gap nor the gap of 2023 counts in the sum or in the
\* number.
C19_AvgGapExcludes2023 ==
  mounted =>
    IF CountedRows(data) = {} THEN avgGapEx2023 = Null
    ELSE \A avg \in {avgGapEx2023}, S \in {CountedRows(data)} :
           /\ IsFinite(avg)
           /\ NearestTenth(avg, Div(SumOfGaps(data, S), Lit(Cardinality(S), 0)))

\* A dashboard whose row of 2023 has a gap and one of whose other rows has
\* none: the average is taken over three rows.
C19_Witness ==
  /\ mounted
  /\ NotNull(FindField(data, "2023", "priceGap"))
  /\ Cardinality(CountedRows(data)) = 3
  /\ NotNull(avgGapEx2023)

\* A dashboard none of whose rows has a gap: the average is absent.
C19_WitnessAbsent ==
  /\ mounted
  /\ CountedRows(data) = {}
  /\ avgGapEx2023 = Null

\* The gap percentages the narrative of the myth-busting block quotes:
\* "2022: 26.2 vs 15 => ~74.7%; 2024: 23.1 vs 14 => ~64.3%".
NarrativeGapPct == [y \in {"2022", "2024"} |-> IF y = "2022" THEN Lit(747, -1) ELSE Lit(643, -1)]

\* C20: with the prices the narrative quotes (26.2 against 15 in 2022, 23.1
\* against 14 in 2024), the priceGapPct of the rows of 2022 and of 2024 are
\* the percentages the narrative quotes, 74.7 and 64.3.  The shipped tables
\* refute it: the row of 2024 has a priceGapPct of 65.0 (9.1 / 14 * 100).
C20_NarrativeAgreesWithTable ==
  (/\ mounted
   /\ tables.localPrice[2022] = Lit(150, -1)
   /\ tables.globalPrice[2022] = Lit(262, -1)
   /\ tables.localPrice[2024] = Lit(140, -1)
   /\ tables.globalPrice[2024] = Lit(231, -1)) =>
    \A y \in DOMAIN NarrativeGapPct :
      FindField(data, y, "priceGapPct") = NarrativeGapPct[y]


\* C21: the headline metrics the component computes inline equal the YoY
\* fields of the 2024 row, in value and in presence: revenueDrop is the
\* row's yoyRevenue, subsidyYoY its yoySubsidy, priceCollapse its yoyLocal.
\* The row fields come from yoy, which tests the divisor for 0; revenueDrop
\* and subsidyYoY are computed without that test.
C21_HeadlinesAgreeWithRowFields ==
  mounted =>
    /\ revenueDrop = FindField(data, "2024", "yoyRevenue")
    /\ subsidyYoY = FindField(data, "2024", "yoySubsidy")
    /\ priceCollapse = FindField(data, "2024", "yoyLocal")

\* The row fields the KPI cards titled "(2024)" show, read from latest.
KpiFields ==
  {"localPrice", "globalPrice", "priceGapPct", "revenueMvrMillions", "yoyRevenue",
   "subsidyMvrMillions", "yoySubsidy"}

\* The row fields the headline YoY values compare.
HeadlineFields ==
  {"localPrice", "revenueMvrMillions", "subsidyMvrMillions", "purchasesKt", "exportsKt"}

\* C22: the row read as latest (data[length - 2]) is the row of the year
\* "2024" and the row read as prev (data[length - 3]) the row of "2023":
\* every field a "(2024)" card shows is the field of the row found by the
\* year, every headline YoY compares the 2024 value with the 2023 value, and
\* the revenues read by position are rev24 and rev23.
C22_LatestIs2024PrevIs2023 ==
  mounted =>
    /\ LatestField(data, "year") = "2024"
    /\ PrevYearField(data, "year") = "2023"
    /\ \A f \in KpiFields : LatestField(data, f) = FindField(data, "2024", f)
    /\ \A f \in HeadlineFields :
         /\ LatestField(data, f) = FindField(data, "2024", f)
         /\ PrevYearField(data, f) = FindField(data, "2023", f)
    /\ LatestField(data, "revenueMvrMillions") = Rev(data, "2024")
    /\ PrevYearField(data, "revenueMvrMillions") = Rev(data, "2023")

\* A render of edited tables where the revenue of 2024 is not the shipped
\* one, differs from the revenue of 2023, and is the one latest holds.
C22_Witness ==
  /\ mounted
  /\ tables["revenueMvr"][2024] # ShippedTables["revenueMvr"][2024]
  /\ NotNull(LatestField(data, "revenueMvrMillions"))
  /\ LatestField(data, "revenueMvrMillions") # PrevYearField(data, "revenueMvrMillions")
  /\ LatestField(data, "revenueMvrMillions") = Rev(data, "2024")

\* The series of the chart "Impact Timeline": the dataKey of the Area and of
\* each Line the render returns.  The Lines of the MIFCO price and of the
\* global price stand behind their flag; the Area of the local price and the
\* Line of the subsidy stand behind none.
ImpactTimelineSeries ==
  {"localPrice"}
    \cup (IF showMifcoPrice THEN {"mifcoLocalPrice"} ELSE {})
    \cup (IF showGlobal THEN {"globalPrice"} ELSE {})
    \cup {"subsidyMvrMillions"}

\* The series of the chart "Revenue vs Tuna exports": the Bar of the
\* exports, and the Line of the revenue behind showRevenue.
RevenueExportsSeries ==
  {"exportsKt"} \cup (IF showRevenue THEN {"revenueMvrMillions"} ELSE {})

\* C23: in every render each of the four switches decides whether its own
\* series is drawn: the global price line iff showGlobal, the MIFCO price
\* line iff showMifcoPrice, the revenue line iff showRevenue and the subsidy
\* line iff showSubsidy.  No element of the render reads showSubsidy.
C23_EachSwitchControlsItsSeries ==
  mounted =>
    /\ ("globalPrice" \in ImpactTimelineSeries) <=> showGlobal
    /\ ("mifcoLocalPrice" \in ImpactTimelineSeries) <=> showMifcoPrice
    /\ ("revenueMvrMillions" \in RevenueExportsSeries) <=> showRevenue
    /\ ("subsidyMvrMillions" \in ImpactTimelineSeries) <=> showSubsidy

\* The four switches of the header, by their id.
Switches == {"global", "mifcoPrice", "revenue", "subsidy"}

\* The checked prop of each switch.
Flags ==
  [global |-> showGlobal, mifcoPrice |-> showMifcoPrice, revenue |-> showRevenue,
   subsidy |-> showSubsidy]

\* onCheckedChange(!checked) of the switch sw, on the flags fl.
Toggle(fl, sw) == [fl EXCEPT ![sw] = ~fl[sw]]

\* C24: the four flags are true at the first render; a click on a switch
\* sets the flag of that switch to its negation and leaves the three others
\* (and the tables and the rows) as they are; from every reachable state two
\* clicks on one switch give the flags back and clicks on two switches give
\* the same flags in either order.
C24_ClickTogglesOwnFlagOnly ==
  /\ [](~mounted => \A sw \in Switches : Flags[sw])
  /\ [][/\ (~mounted /\ mounted') => \A fl \in {Flags'} : \A sw \in Switches : fl[sw]
        /\ ClickGlobal => Flags' = Toggle(Flags, "global")
        /\ ClickMifcoPrice => Flags' = Toggle(Flags, "mifcoPrice")
        /\ ClickRevenue => Flags' = Toggle(Flags, "revenue")
        /\ ClickSubsidy => Flags' = Toggle(Flags, "subsidy")
        /\ (mounted /\ Flags' # Flags) =>
             /\ \E sw \in Switches : Flags' = Toggle(Flags, sw)
             /\ UNCHANGED <<tables, mounted, rows, data>>
        /\ \A a \in Switches, b \in Switches :
             /\ Toggle(Toggle(Flags, a), a) = Flags
             /\ Toggle(Toggle(Flags, a), b) = Toggle(Toggle(Flags, b), a)]_vars

\* Four clicks on four different switches after the mount: every flag is
\* false, the combination farthest from the initial one.
C24_Witness == mounted /\ \A sw \in Switches : ~Flags[sw]

\* C25: null is given only for an absent operand or a YoY divisor of 0.  A
\* derived field is not null whenever every raw operand of it is present for
\* the year; a YoY field is not null (and is a finite number) whenever the
\* metric is present in the row and in the row before and is not 0 there; a
\* metric equal to the non-zero one of the row before gives a YoY of 0, not
\* null.  With the shipped local price of 2024 and 2025 (14.0 twice) the
\* yoyLocal of the row of 2025 is 0.
C25_AbsentOnlyForAbsentOperandOrZeroPrev ==
  mounted =>
    /\ \A i \in DOMAIN data : \A f \in DerivedFields :
         (\A o \in Operands[f] : NotNull(tables[o][years[i]])) => NotNull(data[i][f])
    /\ \A idx \in 2..Len(data) : \A p \in YoYPairs :
         \A curr \in {data[idx][p[2]]}, prev \in {data[idx - 1][p[2]]} :
           (NotNull(curr) /\ NotNull(prev) /\ ~IsZero(prev)) =>
             /\ NotNull(data[idx][p[1]])
             /\ IsFinite(data[idx][p[1]])
             /\ (curr = prev) => data[idx][p[1]] = Lit(0, 0)
    /\ (tables.localPrice[2024] = Lit(140, -1) /\ tables.localPrice[2025] = Lit(140, -1)) =>
         /\ FindField(data, "2025", "yoyLocal") = Lit(0, 0)
         /\ FindField(data, "2025", "yoyLocal") # Null

\* The dashboard of edited tables with the shipped local price of 2024 and
\* 2025: the yoyLocal of the row of 2025 is 0, beside a row with a null YoY
\* field and a derived field with every operand present.
C25_Witness ==
  /\ mounted
  /\ Edited(tables) # {}
  /\ tables.localPrice[2024] = Lit(140, -1)
  /\ tables.localPrice[2025] = Lit(140, -1)
  /\ IsZero(FindField(data, "2025", "yoyLocal"))
  /\ \E idx \in 2..Len(data) : \E p \in YoYPairs : data[idx][p[1]] = Null
  /\ \E i \in DOMAIN data : \E f \in DerivedFields :
       /\ \A o \in Operands[f] : NotNull(tables[o][years[i]])
       /\ NotNull(data[i][f])

\* C26: the sign of a YoY field is the direction of the change, for a
\* negative previous value too: a positive YoY field means the metric of the
\* row is above the one of the row before, a negative one that it is below.
\* yoy divides the difference by prev, not by its magnitude.
C26_YoYSignIsDirectionOfChange ==
  mounted =>
    \A idx \in 2..Len(data) : \A p \in YoYPairs :
      \A curr \in {data[idx][p[2]]}, prev \in {data[idx - 1][p[2]]}, v \in {data[idx][p[1]]} :
        (NotNull(curr) /\ NotNull(prev) /\ ~IsZero(prev)) =>
          /\ IsPositive(v) => IsPositive(Sub(curr, prev))
          /\ IsNegative(v) => IsNegative(Sub(curr, prev))

\* C27: the cashToBoatsMvrM of a row is localPrice * purchasesTonnes / 1000
\* rounded to one decimal when the tables hold both for the year, and null
\* otherwise; the shipped values of 2024 give 745.2, and the row of 2025 has
\* none (no purchases published) although its local price is present.
C27_CashToBoats ==
  mounted =>
    /\ \A i \in DOMAIN data :
         \A local \in {tables.localPrice[years[i]]},
            purchT \in {tables.purchasesTonnes[years[i]]},
            cash \in {data[i].cashToBoatsMvrM} :
           IF NotNull(local) /\ NotNull(purchT)
           THEN /\ IsFinite(cash)
                /\ NearestTenth(cash, Div(Mul(local, purchT), Lit(1000, 0)))
           ELSE cash = Null
    /\ (/\ tables.localPrice[2024] = ShippedTables.localPrice[2024]
        /\ tables.purchasesTonnes[2024] = ShippedTables.purchasesTonnes[2024]) =>
         FindField(data, "2024", "cashToBoatsMvrM") = Lit(7452, -1)
    /\ (/\ tables.localPrice[2025] = ShippedTables.localPrice[2025]
        /\ tables.purchasesTonnes[2025] = ShippedTables.purchasesTonnes[2025]) =>
         /\ NotNull(FindField(data, "2025", "localPrice"))
         /\ FindField(data, "2025", "cashToBoatsMvrM") = Null

\* The dashboard of tables edited in a local price or a purchase volume of
\* an earlier year, that year's cash to boats present and not zero, with
\* 745.2 for 2024 and none for 2025.
C27_Witness ==
  /\ mounted
  /\ \E c \in Edited(tables) :
       /\ c[1] \in {"localPrice", "purchasesTonnes"}
       /\ IsPositive(FindField(data, ToString(c[2]), "cashToBoatsMvrM"))
  /\ FindField(data, "2024", "cashToBoatsMvrM") = Lit(7452, -1)
  /\ NotNull(FindField(data, "2025", "localPrice"))
  /\ FindField(data, "2025", "cashToBoatsMvrM") = Null

\* ------------------------------------------- the second dashboard variant
\* The pipeline of the variant of the dashboard in part_002, from its own
\* text: its buildRows, yoy, useRowsWithYoY and the headline values
\* revenueDrop and revenueLossMvrBn, on the tables t.

years_002 == <<2021, 2022, 2023, 2024, 2025>>

Notes_002(y) ==
  IF y = 2025 THEN "2025 prices YTD; revenue not yet published; subsidy is budgeted"
  ELSE IF y = 2024 THEN "Subsidy recorded net against cost of sales (MVR 4/kg scheme)"
  ELSE IF y = 2023 THEN "Grant recorded in Other Income; fixed price policy in effect (Sep)"
  ELSE ""

\* x != null ? Number((x / unit).toFixed(1)) : null
Scaled_002(x, unit) ==
  IF NotNull(x) THEN Number(toFixed(Div(x, Lit(unit, 0)), 1)) ELSE Null

\* a != null && b != null ? Number((b - a).toFixed(1)) : null
PriceGap_002(a, b) ==
  IF NotNull(a) /\ NotNull(b) THEN Number(toFixed(Sub(b, a), 1)) ELSE Null

\* a != null && b != null ? Number(((a / b) * 100).toFixed(1)) : null
Pct_002(a, b) ==
  IF NotNull(a) /\ NotNull(b)
  THEN Number(toFixed(Mul(Div(a, b), Lit(100, 0)), 1))
  ELSE Null

BuildRow_002(t, y) ==
  LET local == t.localPrice[y]
      global == t.globalPrice[y]
      purchT == t.purchasesTonnes[y]
      mifcoLocal == t.mifcoLocalPrice[y]
      priceGap == PriceGap_002(local, global)
      priceGapMifco == PriceGap_002(mifcoLocal, global)
  IN [year |-> ToString(y),
      localPrice |-> local,
      mifcoLocalPrice |-> mifcoLocal,
      globalPrice |-> global,
      priceGap |-> priceGap,
      priceGapPct |-> Pct_002(priceGap, local),
      priceGapMifco |-> priceGapMifco,
      priceGapMifcoPct |-> Pct_002(priceGapMifco, mifcoLocal),
      revenueMvr |-> t.revenueMvr[y],
      netProfitMvr |-> t.netProfitMvr[y],
      revenueMvrMillions |-> Scaled_002(t.revenueMvr[y], 1000000),
      netProfitMvrMillions |-> Scaled_002(t.netProfitMvr[y], 1000000),
      subsidyMvr |-> t.subsidyMvr[y],
      subsidyMvrMillions |-> Scaled_002(t.subsidyMvr[y], 1000000),
      purchasesKt |-> Scaled_002(purchT, 1000),
      exportsKt |-> Scaled_002(t.exportsTonnes[y], 1000),
      cashToBoatsMvrM |->
        IF NotNull(local) /\ NotNull(purchT)
        THEN Number(toFixed(Div(Mul(Mul(local, purchT), Lit(1000, 0)), Lit(1000000, 0)), 1))
        ELSE Null,
      totalCatchKt |-> Scaled_002(t.totalCatchTonnes[y], 1000),
      mifcoPurchasesKt |-> Scaled_002(t.mifcoPurchasesTonnes[y], 1000),
      mifcoShareOfCatchPct |-> Pct_002(t.mifcoPurchasesTonnes[y], t.totalCatchTonnes[y]),
      notes |-> Notes_002(y)]

buildRows_002(t) == [i \in 1..Len(years_002) |-> BuildRow_002(t, years_002[i])]

yoy_002(curr, prev) ==
  IF ~NotNull(curr) \/ ~NotNull(prev) THEN Null
  ELSE IF IsZero(prev) THEN Null
  ELSE Number(toFixed(Mul(Div(Sub(curr, prev), prev), Lit(100, 0)), 1))

\* rows.map((row, idx) => ({ ...row, yoyLocal: yoy(row.localPrice,
\* prev?.localPrice ?? null), ... })) with prev = idx > 0 ? rows[idx - 1]
\* : undefined
WithYoY_002(rs) ==
  [idx \in 1..Len(rs) |->
     LET Prev(f) == IF idx > 1 THEN rs[idx - 1][f] ELSE Null
     IN rs[idx] @@
        [yoyLocal |-> yoy_002(rs[idx].localPrice, Prev("localPrice")),
         yoyGlobal |-> yoy_002(rs[idx].globalPrice, Prev("globalPrice")),
         yoyRevenue |-> yoy_002(rs[idx].revenueMvrMillions, Prev("revenueMvrMillions")),
         yoyNetProfit |->
           yoy_002(rs[idx].netProfitMvrMillions, Prev("netProfitMvrMillions")),
         yoySubsidy |-> yoy_002(rs[idx].subsidyMvrMillions, Prev("subsidyMvrMillions"))]]

\* The value useRowsWithYoY returns at the first render.
useRowsWithYoY_002(t) == WithYoY_002(buildRows_002(t))

\* latest = d[d.length - 2], prev = d[d.length - 3]; revenueDrop computed
\* from their revenueMvrMillions with the != null tests alone.
RevenueDrop_002(d) ==
  LET l == IF Len(d) - 1 \in DOMAIN d THEN d[Len(d) - 1].revenueMvrMillions ELSE Null
      p == IF Len(d) - 2 \in DOMAIN d THEN d[Len(d) - 2].revenueMvrMillions ELSE Null
  IN IF NotNull(l) /\ NotNull(p)
     THEN Number(toFixed(Mul(Div(Sub(l, p), p), Lit(100, 0)), 1))
     ELSE Null

\* rev23 and rev24 by d.find on the year, revenueLossMvrM their difference
\* to one decimal, revenueLossMvrBn that over 1000 to two decimals.
RevenueLossMvrBn_002(d) ==
  LET Find(yr) ==
        IF \E i \in DOMAIN d : d[i].year = yr
        THEN d[CHOOSE i \in DOMAIN d :
                 d[i].year = yr /\ \A j \in 1..(i - 1) : d[j].year # yr].revenueMvrMillions
        ELSE Null
      rev23 == Find("2023")
      rev24 == Find("2024")
      lossM == IF NotNull(rev23) /\ NotNull(rev24)
               THEN Number(toFixed(Sub(rev23, rev24), 1))
               ELSE Null
  IN IF NotNull(lossM) THEN Number(toFixed(Div(lossM, Lit(1000, 0)), 2)) ELSE Null

\* C28: the two variants of the dashboard compute the same data from the
\* same tables: the rows the variant of part_002 returns from useRowsWithYoY
\* equal, row for row and field for field, the rows the component holds, and
\* its revenueDrop and revenueLossMvrBn equal the component's.
C28_VariantsComputeSameData ==
  mounted =>
    \A d2 \in {useRowsWithYoY_002(tables)} :
      /\ Len(d2) = Len(data)
      /\ \A i \in DOMAIN data :
           /\ DOMAIN d2[i] = DOMAIN data[i]
           /\ \A f \in DOMAIN data[i] : d2[i][f] = data[i][f]
      /\ RevenueDrop_002(d2) = revenueDrop
      /\ RevenueLossMvrBn_002(d2) = revenueLossMvrBn

\* The dashboard of edited tables whose revenue of 2023 or 2024 is not the
\* shipped one, both headline values present in either variant.
C28_Witness ==
  /\ mounted
  /\ \E y \in {2023, 2024} : tables.revenueMvr[y] # ShippedTables.revenueMvr[y]
  /\ NotNull(revenueDrop)
  /\ NotNull(revenueLossMvrBn)
  /\ NotNull(RevenueDrop_002(data))
  /\ NotNull(RevenueLossMvrBn_002(data))
====
